---- MODULE Spec2Model ----
(***************************************************************************)
(* A model of chatterbot.ChatBot (src/chatterbot/chatterbot.py): the       *)
(* get_response / generate_response / learn_response path, the lazily      *)
(* created default conversation and the read_only switch.                  *)
(*                                                                         *)
(* Two callers (threads of a web front end) run calls on one ChatBot.      *)
(* A call is cut at every access to state that the callers share: the      *)
(* storage adapter, the conversation records and the attributes of the     *)
(* ChatBot object.  Everything between two such accesses is local to the   *)
(* call and belongs to the step that follows it.  A local variable is      *)
(* dropped (set to None) at the step after which the code no longer reads  *)
(* it.                                                                     *)
(*                                                                         *)
(* The storage adapter, the Statement class, the conversation manager and  *)
(* the MultiLogicAdapter are not part of chatterbot.py; their operations   *)
(* are modelled from the written specification (sections 3, 4 and 6).      *)
(***************************************************************************)
EXTENDS Integers, Sequences, FiniteSets, TLC

\* ------------------------------------------------------------------ bounds
\* Calls (get_response or learn_response) started in one run.
MaxCalls == 2
\* Confidence levels a matching strategy can report are 0..MaxConf.
MaxConf == 1

\* --------------------------------------------------------------- universes
None == "None"

Procs == {"p1", "p2"}

\* Input texts (already preprocessed).
Texts == {"Hi", "How are you?"}

\* The response configured for the mandatory no-knowledge strategy.
DefaultResponse == "I don't understand"

AllTexts == Texts \cup {DefaultResponse}

\* Session ids a caller may pass, and the ids the store hands out for
\* conversations made by Conversation.objects.create().
SessionIds == {"s1", "s2"}
CreatedIds == <<"d1", "d2">>

\* The matching strategies that can be configured, by name.
Strategies == {"frequency", "lexical"}

VARIABLES
    read_only,              \* self.read_only
    logic_adapters,         \* kwargs['logic_adapters'], in configured order
    adapters,               \* self.logic.adapters
    system_adapters,        \* self.logic.system_adapters
    default_conversation,   \* self.default_conversation
    occurrence,             \* store: text -> occurrence count (0: not stored)
    response_links,         \* store: <<prior, next>> -> count of the link
    conversations,          \* store: conversation id -> sequence of texts
    base_query,             \* storage adapter: scope set by generate_base_query
    op,                     \* per caller: the method it is running
    pc,                     \* per caller: its position in that method
    conversation_id,        \* per caller: the conversation_id argument
    conversation,           \* per caller: the resolved conversation (its id)
    statement,              \* per caller: the input statement
    previous_statement,     \* per caller: text of the previous statement
    results,                \* per caller: what each strategy returned
    response,               \* per caller: the selected response
    returned,               \* per caller: what its last get_response returned
    calls,                  \* calls started so far
    seeded,                 \* whether the run starts from an earlier dialog
    recorded,               \* <<prior, next>> -> record operations that stored it
    upserts                 \* text -> store updates / saves done for it

config == <<read_only, logic_adapters, adapters, system_adapters, seeded>>
store == <<occurrence, response_links, conversations>>
locals == <<op, pc, conversation_id, conversation, statement,
            previous_statement, results, response, returned>>
ghost == <<recorded, upserts>>
vars == <<config, default_conversation, store, base_query, locals, calls, ghost>>

\* ------------------------------------------------------ Statement (model)
NoLinks == [t \in AllTexts |-> 0]

\* Statement(text): a statement as the input adapter hands it over, carrying
\* no response link yet.
Statement(text) == [text |-> text, in_response_to |-> NoLinks]

NoStatement == [text |-> None, in_response_to |-> NoLinks]

\* statement.add_response(Response(prior)): create the link or count it again.
add_response(stmt, prior) ==
    [stmt EXCEPT !.in_response_to[prior] = @ + 1]

\* ---------------------------------------------------- Statement store
Pairs == AllTexts \X AllTexts

\* storage.update(statement): the statement's occurrence count goes up by
\* one and every link the statement carries is created or incremented, in
\* one atomic store operation.
update_occurrence(occ, stmt) ==
    [occ EXCEPT ![stmt.text] = @ + 1]

update_links(links, stmt) ==
    [pr \in Pairs |->
        IF pr[2] = stmt.text
        THEN links[pr] + stmt.in_response_to[pr[1]]
        ELSE links[pr]]

\* response.save(): the response statement is persisted (one more sighting).
save_statement(occ, text) ==
    [occ EXCEPT ![text] = @ + 1]

\* ------------------------------------------------ Conversation records
\* self.conversations.get(conversation_id): the conversation, or nothing.
conversations_get(convs, id) ==
    IF id \in DOMAIN convs THEN id ELSE None

\* conversation.get_last_response_statement(): the most recently appended
\* statement, or nothing for an empty conversation.
get_last_response_statement(turns) ==
    IF turns = <<>> THEN None ELSE turns[Len(turns)]

\* conversation.statements.add(statement)
statements_add(convs, id, text) ==
    [convs EXCEPT ![id] = Append(@, text)]

\* storage.Conversation.objects.create(): a new, empty conversation record
\* under the next id the store hands out.
NextCreatedId(convs) ==
    CreatedIds[1 + Cardinality({i \in 1..Len(CreatedIds) : CreatedIds[i] \in DOMAIN convs})]

objects_create(convs) ==
    (NextCreatedId(convs) :> <<>>) @@ convs

\* ------------------------------------------------- Ensemble selection
Range(seq) == {seq[i] : i \in 1..Len(seq)}

\* What one strategy may return: a response with a confidence; a strategy
\* with no opinion reports confidence 0 and possibly no response at all.
Candidate == [s \in Strategies |-> IF s = "frequency" THEN "Hi" ELSE "How are you?"]

StrategyResults(s) ==
    {r \in [response : {Candidate[s], None}, confidence : 0..MaxConf] :
        r.response = None => r.confidence = 0}

\* One result for each of the strategies in cfg.
EnsembleResults(cfg) ==
    {res \in [Range(cfg) -> [response : Texts \cup {None}, confidence : 0..MaxConf]] :
        \A s \in Range(cfg) : res[s] \in StrategyResults(s)}

NoResults == [s \in {} |-> None]

\* The mandatory no-knowledge strategy: the default response, confidence 0.
NoKnowledgeAdapter == [response |-> DefaultResponse, confidence |-> 0]

\* The strategy whose result wins: strictly highest confidence, the earliest
\* in order among equals.
Winner(order, res) ==
    order[CHOOSE i \in 1..Len(order) :
            /\ \A j \in 1..Len(order) : res[order[j]].confidence <= res[order[i]].confidence
            /\ \A j \in 1..(i - 1) : res[order[j]].confidence < res[order[i]].confidence]

\* self.logic.process(input_statement): every strategy has run (res); when
\* no configured strategy reports a confidence above 0 the fallback's response
\* is used, otherwise the winner's.
process(order, fallback, res) ==
    IF \A i \in 1..Len(order) : res[order[i]].confidence = 0
    THEN fallback.response
    ELSE res[Winner(order, res)].response

\* ------------------------------------------------------- construction
AdapterConfigs ==
    {<<>>, <<"frequency">>}

\* Variant: every adapter is put in front of those added before it.
add_adapters_reversed(cfg) ==
    [i \in 1..Len(cfg) |-> cfg[Len(cfg) + 1 - i]]

\* for adapter in logic_adapters: self.logic.add_adapter(adapter)
add_adapters(cfg) == cfg

\* The store and the conversations left by an earlier dialog: "Hi" answered
\* by the default response, once in each of the two sessions.
SeedTurns == <<"Hi", DefaultResponse>>

InitOccurrence(s) ==
    [t \in AllTexts |->
        IF s /\ t \in Range(SeedTurns) THEN Cardinality(SessionIds) ELSE 0]

InitConversations(s) ==
    IF s THEN [c \in SessionIds |-> SeedTurns] ELSE [c \in {} |-> <<>>]

\* What a caller holds while it has no response: none asked for yet, or a
\* call under way.
NoReturn == "NoReturn"

InitWith(cfgs) ==
    /\ read_only \in BOOLEAN
    /\ logic_adapters \in cfgs
    /\ adapters = add_adapters(logic_adapters)
    /\ system_adapters = <<NoKnowledgeAdapter>>
    /\ seeded \in BOOLEAN
    /\ default_conversation = None
    /\ occurrence = InitOccurrence(seeded)
    /\ response_links = [pr \in Pairs |-> 0]
    /\ conversations = InitConversations(seeded)
    /\ base_query = None
    /\ op = [p \in Procs |-> None]
    /\ pc = [p \in Procs |-> "idle"]
    /\ conversation_id = [p \in Procs |-> None]
    /\ conversation = [p \in Procs |-> None]
    /\ statement = [p \in Procs |-> NoStatement]
    /\ previous_statement = [p \in Procs |-> None]
    /\ results = [p \in Procs |-> NoResults]
    /\ response = [p \in Procs |-> None]
    /\ returned = [p \in Procs |-> NoReturn]
    /\ calls = 0
    /\ recorded = [pr \in Pairs |-> 0]
    /\ upserts = [t \in AllTexts |-> 0]

Init == InitWith(AdapterConfigs)

\* ------------------------------------------------------------ get_response
\* A finished call leaves behind what it returned and, for a direct call
\* of learn_response, the caller's statement object (stmt) as the call left it.
Finish(p, ret, stmt) ==
    /\ op' = [op EXCEPT ![p] = None]
    /\ pc' = [pc EXCEPT ![p] = "idle"]
    /\ conversation_id' = [conversation_id EXCEPT ![p] = None]
    /\ conversation' = [conversation EXCEPT ![p] = None]
    /\ statement' = [statement EXCEPT ![p] = stmt]
    /\ previous_statement' = [previous_statement EXCEPT ![p] = None]
    /\ results' = [results EXCEPT ![p] = NoResults]
    /\ response' = [response EXCEPT ![p] = None]
    /\ returned' = [returned EXCEPT ![p] = ret]

\* self.output.process_response(response, conversation.id): the response is
\* handed to the caller as it is.
process_response(resp, conv) == resp

\* Variant: learn_response never writes.
learn_persists_never == FALSE

\* `if not self.read_only` in learn_response
learn_persists == ~read_only

\* Variants: the response is saved whatever the mode; it is never saved.
response_persists_always == TRUE
response_persists_never == FALSE

\* `if not self.read_only` in get_response
response_persists == ~read_only

\* get_or_create_default_conversation: the default conversation, created
\* in the store first when there is none yet.
default_after(dflt, convs) ==
    IF dflt # None THEN dflt ELSE NextCreatedId(convs)

\* Variant: a conversation record is created at every use of the default.
conversations_always_created(dflt, convs) == objects_create(convs)

conversations_after_default(dflt, convs) ==
    IF dflt # None THEN convs ELSE objects_create(convs)

\* The conversation get_response works on: the one looked up by id, and the
\* default conversation when no id is given or none is found.
resolve(cid, dflt, convs) ==
    IF cid # None /\ conversations_get(convs, cid) # None
    THEN conversations_get(convs, cid)
    ELSE default_after(dflt, convs)

uses_default(cid, convs) ==
    ~(cid # None /\ conversations_get(convs, cid) # None)

\* get_response up to the conversation lookup: the input statement is built
\* and the conversation is resolved.  The lookup and the creation of a missing
\* default conversation are taken as one step.
GetResponse(p, text, cid) ==
    /\ pc[p] = "idle"
    /\ calls < MaxCalls
    /\ calls' = calls + 1
    /\ op' = [op EXCEPT ![p] = "get_response"]
    /\ statement' = [statement EXCEPT ![p] = Statement(text)]
    /\ conversation_id' = [conversation_id EXCEPT ![p] = cid]
    /\ returned' = [returned EXCEPT ![p] = NoReturn]
    /\ conversation' = [conversation EXCEPT ![p] =
            resolve(cid, default_conversation, conversations)]
    /\ IF uses_default(cid, conversations)
       THEN /\ default_conversation' = default_after(default_conversation, conversations)
            /\ conversations' = conversations_after_default(default_conversation, conversations)
       ELSE UNCHANGED <<default_conversation, conversations>>
    /\ pc' = [pc EXCEPT ![p] = "generate_base_query"]
    /\ UNCHANGED <<config, occurrence, response_links, base_query,
                   previous_statement, results, response, ghost>>

\* generate_response: self.storage.generate_base_query(self, conversation_id)
GenerateBaseQuery(p) ==
    /\ pc[p] = "generate_base_query"
    /\ base_query' = conversation[p]
    /\ conversation_id' = [conversation_id EXCEPT ![p] = None]
    /\ pc' = [pc EXCEPT ![p] = "process"]
    /\ UNCHANGED <<config, default_conversation, store, op, conversation,
                   statement, previous_statement, results, response,
                   returned, calls, ghost>>

\* Variants: the input statement's text is handed back as the response; the
\* first configured strategy's response is used without any selection.
generate_response_echo(input_statement, res) ==
    <<input_statement, input_statement.text>>

generate_response_first(input_statement, res) ==
    <<input_statement,
      IF adapters # <<>> THEN res[adapters[1]].response
      ELSE system_adapters[1].response>>

\* generate_response, after the base query is set: the pair of the input
\* statement and the response self.logic.process selects, res being what the
\* strategies return for this input.
generate_response(input_statement, res) ==
    <<input_statement, process(adapters, system_adapters[1], res)>>

\* generate_response's selection, then
\* previous_statement = conversation.get_last_response_statement()
Process(p) ==
    /\ pc[p] = "process"
    /\ \E res \in EnsembleResults(adapters) :
          response' = [response EXCEPT ![p] = generate_response(statement[p], res)[2]]
    /\ previous_statement' = [previous_statement EXCEPT ![p] =
            get_last_response_statement(conversations[conversation[p]])]
    /\ pc' = [pc EXCEPT ![p] = "learn"]
    /\ UNCHANGED <<config, default_conversation, store, base_query, op,
                   conversation_id, conversation, statement, results,
                   returned, calls, ghost>>

\* ---------------------------------------------------------- learn_response
\* A direct call of learn_response(statement, previous_statement, conversation)
\* up to the choice of the conversation.
LearnResponse(p, text, prev, conv) ==
    /\ pc[p] = "idle"
    /\ calls < MaxCalls
    /\ calls' = calls + 1
    /\ op' = [op EXCEPT ![p] = "learn_response"]
    /\ statement' = [statement EXCEPT ![p] = Statement(text)]
    /\ previous_statement' = [previous_statement EXCEPT ![p] = prev]
    /\ returned' = [returned EXCEPT ![p] = NoReturn]
    /\ IF conv # None
       THEN /\ conversation' = [conversation EXCEPT ![p] = conv]
            /\ UNCHANGED <<default_conversation, conversations>>
       ELSE /\ conversation' = [conversation EXCEPT ![p] =
                    default_after(default_conversation, conversations)]
            /\ default_conversation' = default_after(default_conversation, conversations)
            /\ conversations' = conversations_after_default(default_conversation, conversations)
    /\ pc' = [pc EXCEPT ![p] = "learn"]
    /\ UNCHANGED <<config, occurrence, response_links, base_query,
                   conversation_id, results, response, ghost>>

\* Variants: the statement is linked to itself; the link is added twice.
learned_self(stmt, prev) ==
    IF prev # None THEN add_response(stmt, stmt.text) ELSE stmt

learned_twice(stmt, prev) ==
    IF prev # None THEN add_response(add_response(stmt, prev), prev) ELSE stmt

\* Variants: no link is added at all; a link to the default response is added
\* when there is no previous statement.
learned_unlinked(stmt, prev) == stmt

learned_always(stmt, prev) ==
    add_response(stmt, IF prev # None THEN prev ELSE DefaultResponse)

\* The statement as learn_response leaves it before saving: the previous
\* statement, when there is one, is added as a response link.
learned(stmt, prev) ==
    IF prev # None THEN add_response(stmt, prev) ELSE stmt

\* What follows the return of learn_response: a direct call is over;
\* get_response saves the response unless read-only, and returns it otherwise.
AfterLearn(p, stmt) ==
    IF op[p] = "learn_response"
    THEN Finish(p, NoReturn, stmt)
    ELSE IF response_persists
    THEN /\ pc' = [pc EXCEPT ![p] = "save"]
         /\ statement' = [statement EXCEPT ![p] = stmt]
         /\ previous_statement' = [previous_statement EXCEPT ![p] = None]
         /\ UNCHANGED <<op, conversation_id, conversation, results, response,
                        returned>>
    ELSE Finish(p, process_response(response[p], conversation[p]), NoStatement)

\* Variant: get_response goes on to save the response without having called
\* learn_response.
LearnSkipped(p) ==
    /\ pc[p] = "learn"
    /\ pc' = [pc EXCEPT ![p] = "save"]
    /\ previous_statement' = [previous_statement EXCEPT ![p] = None]
    /\ UNCHANGED <<config, default_conversation, store, base_query, op,
                   conversation_id, conversation, statement, results, response,
                   returned, calls, ghost>>

\* learn_response: the link is added to the statement and, unless read-only,
\* the statement is written to the store.
Learn(p) ==
    /\ pc[p] = "learn"
    /\ LET stmt == learned(statement[p], previous_statement[p])
       IN  IF learn_persists
           THEN /\ statement' = [statement EXCEPT ![p] = stmt]
                /\ occurrence' = update_occurrence(occurrence, stmt)
                /\ response_links' = update_links(response_links, stmt)
                /\ upserts' = [upserts EXCEPT ![stmt.text] = @ + 1]
                /\ recorded' = [pr \in Pairs |->
                        IF pr[2] = stmt.text /\ pr[1] = previous_statement[p]
                        THEN recorded[pr] + 1 ELSE recorded[pr]]
                /\ previous_statement' = [previous_statement EXCEPT ![p] = None]
                /\ pc' = [pc EXCEPT ![p] = "learn_add"]
                /\ UNCHANGED <<op, conversation_id, conversation, results,
                               response, returned>>
           ELSE /\ UNCHANGED <<occurrence, response_links, ghost>>
                /\ AfterLearn(p, stmt)
    /\ UNCHANGED <<config, default_conversation, conversations, base_query, calls>>

\* learn_response: conversation.statements.add(statement)
LearnAdd(p) ==
    /\ pc[p] = "learn_add"
    /\ conversations' = statements_add(conversations, conversation[p], statement[p].text)
    /\ AfterLearn(p, statement[p])
    /\ UNCHANGED <<config, default_conversation, occurrence, response_links,
                   base_query, calls, ghost>>

\* get_response: response.save()
Save(p) ==
    /\ pc[p] = "save"
    /\ occurrence' = save_statement(occurrence, response[p])
    /\ upserts' = [upserts EXCEPT ![response[p]] = @ + 1]
    /\ pc' = [pc EXCEPT ![p] = "add"]
    /\ UNCHANGED <<config, default_conversation, response_links, conversations,
                   base_query, op, conversation_id, conversation, statement,
                   previous_statement, results, response, returned, calls,
                   recorded>>

\* Variant: the response is put in front of the conversation's turns.
AddResponseInFront(p) ==
    /\ pc[p] = "add"
    /\ conversations' = [conversations EXCEPT ![conversation[p]] = <<response[p]>> \o @]
    /\ Finish(p, process_response(response[p], conversation[p]), NoStatement)
    /\ UNCHANGED <<config, default_conversation, occurrence, response_links,
                   base_query, calls, ghost>>

\* get_response: conversation.statements.add(response), and the return
AddResponse(p) ==
    /\ pc[p] = "add"
    /\ conversations' = statements_add(conversations, conversation[p], response[p])
    /\ Finish(p, process_response(response[p], conversation[p]), NoStatement)
    /\ UNCHANGED <<config, default_conversation, occurrence, response_links,
                   base_query, calls, ghost>>

\* The arguments direct calls of learn_response are made with.
LearnTexts == {"Hi"}
LearnPrevious == {DefaultResponse, None}
LearnConversations == {"s1"}

Next ==
    \E p \in Procs :
        \/ \E text \in Texts, cid \in SessionIds \cup {None} : GetResponse(p, text, cid)
        \/ GenerateBaseQuery(p)
        \/ Process(p)
        \/ \E text \in LearnTexts, prev \in LearnPrevious,
              conv \in (DOMAIN conversations \cap LearnConversations) \cup {None} :
                LearnResponse(p, text, prev, conv)
        \/ Learn(p)
        \/ LearnAdd(p)
        \/ Save(p)
        \/ AddResponse(p)

Spec == Init /\ [][Next]_vars

\* ------------------------------------------- generate_response on its own
\* A direct call of generate_response(input_statement, conversation_id), as
\* one step: the base query is set, the strategies run and the pair is
\* returned; the caller keeps the pair and what the strategies had returned.
GenerateResponse(p, text, cid) ==
    /\ pc[p] = "idle"
    /\ base_query' = cid
    /\ \E res \in EnsembleResults(adapters) :
          /\ results' = [results EXCEPT ![p] = res]
          /\ statement' = [statement EXCEPT ![p] = generate_response(Statement(text), res)[1]]
          /\ response' = [response EXCEPT ![p] = generate_response(Statement(text), res)[2]]
    /\ UNCHANGED <<config, default_conversation, store, op, pc, conversation_id,
                   conversation, previous_statement, returned, calls, ghost>>

\* Every order in which the strategies can be configured.
SelectConfigs ==
    {<<>>, <<"frequency">>, <<"lexical">>,
     <<"frequency", "lexical">>, <<"lexical", "frequency">>}

SelectInit == InitWith(SelectConfigs)

SelectNext ==
    \E p \in Procs, text \in Texts : GenerateResponse(p, text, "s1")

SpecSelect == SelectInit /\ [][SelectNext]_vars

\* ------------------------------------------------- one caller at a time
\* get_response calls made one after the other, as a test client posting to
\* the API does: a call starts only when no call is under way.
SessionCall(p, text, cid) ==
    /\ \A q \in Procs : pc[q] = "idle"
    /\ GetResponse(p, text, cid)

SessionNext ==
    \E p \in Procs :
        \/ \E text \in Texts, cid \in SessionIds \cup {None} : SessionCall(p, text, cid)
        \/ GenerateBaseQuery(p)
        \/ Process(p)
        \/ Learn(p)
        \/ LearnAdd(p)
        \/ Save(p)
        \/ AddResponse(p)

SpecSession == Init /\ [][SessionNext]_vars

\* ------------------------------------------------------- store failures
\* What the caller of a call gets when a store operation raised.
StoreError == "StoreError"

\* The positions at which the next thing a call does is a store operation:
\* generate_base_query, the candidate fetch of the strategies, storage.update,
\* the two conversation appends and response.save.
StoreSteps ==
    {"generate_base_query", "process", "learn_add", "save", "add"}
        \cup (IF learn_persists THEN {"learn"} ELSE {})

\* Variant: a failure of generate_base_query is passed over and the call goes
\* on with the scope the storage adapter happens to hold.
StoreFailsSilently(p) ==
    /\ pc[p] = "generate_base_query"
    /\ conversation_id' = [conversation_id EXCEPT ![p] = None]
    /\ pc' = [pc EXCEPT ![p] = "process"]
    /\ UNCHANGED <<config, default_conversation, store, base_query, op,
                   conversation, statement, previous_statement, results,
                   response, returned, calls, ghost>>

\* The store operation a call is about to make raises.  Nothing in
\* get_response, generate_response or learn_response catches an exception:
\* the operation has no effect, the call is over and its caller gets the
\* error.
StoreFails(p) ==
    /\ pc[p] \in StoreSteps
    /\ Finish(p, StoreError,
              IF op[p] = "learn_response" THEN statement[p] ELSE NoStatement)
    /\ UNCHANGED <<config, default_conversation, store, base_query, calls, ghost>>

\* get_response calls of both callers, any of which may meet a store failure.
NextFail ==
    \E p \in Procs :
        \/ \E text \in Texts, cid \in SessionIds \cup {None} : GetResponse(p, text, cid)
        \/ GenerateBaseQuery(p)
        \/ Process(p)
        \/ Learn(p)
        \/ LearnAdd(p)
        \/ Save(p)
        \/ AddResponse(p)
        \/ StoreFails(p)

SpecFail == Init /\ [][NextFail]_vars

\* ================================================================ claims
\* A step of caller p.
StepOf(p) == pc'[p] # pc[p]

\* The step at which p's get_response returns.
Returns(p) == op[p] = "get_response" /\ returned'[p] # NoReturn /\ StepOf(p)

Last(turns) == get_last_response_statement(turns)

\* ---- C1
\* C1: whatever the input and the conversation id (none, known, unknown),
\* get_response returns a response that is not absent; with only the fallback
\* configured it returns the fallback's default response.
C1_ResponseNeverAbsent ==
    \A p \in Procs :
        returned[p] # NoReturn =>
            /\ returned[p] \in AllTexts
            /\ logic_adapters = <<>> => returned[p] = DefaultResponse

\* A call on an empty corpus with only the fallback configured has returned
\* the default response.
C1_Witness ==
    \E p \in Procs :
        /\ ~seeded
        /\ logic_adapters = <<>>
        /\ returned[p] = DefaultResponse

\* ---- C2
\* C2: in read-only mode no step of a get_response call changes what the
\* store holds: occurrence counts, response links, conversation records.
C2_ReadOnlyStoreUnchanged ==
    [][\A p \in Procs :
          (read_only /\ StepOf(p)
             /\ (op[p] = "get_response" \/ op'[p] = "get_response"))
          => UNCHANGED <<occurrence, response_links, conversations>>]_vars

\* ---- C3
\* C3: a get_response call made with a session id works on the conversation
\* of that id (created if it did not exist), never on the default conversation,
\* so calls with different ids never share a conversation.
C3_SessionIdGetsOwnConversation ==
    \A p \in Procs :
        (op[p] = "get_response" /\ pc[p] = "generate_base_query"
            /\ conversation_id[p] # None)
        => /\ conversation[p] = conversation_id[p]
           /\ conversation[p] # default_conversation
           /\ \A q \in Procs \ {p} :
                 (op[q] = "get_response" /\ pc[q] = "generate_base_query"
                    /\ conversation_id[q] \notin {None, conversation_id[p]})
                 => conversation[q] # conversation[p]

\* ---- C4 (SpecSelect)
\* p holds the outcome of a generate_response call.
Selected(p) == statement[p] # NoStatement

AllZero(p) == \A s \in DOMAIN results[p] : results[p][s].confidence = 0

\* C4: when every non-fallback strategy returns confidence 0, the selected
\* response is the fallback strategy's, however many strategies are configured
\* and in whatever order.
C4_AllZeroGivesFallback ==
    \A p \in Procs :
        (Selected(p) /\ AllZero(p))
        => response[p] = system_adapters[Len(system_adapters)].response

\* Two strategies are configured, both report confidence 0, one of them with a
\* response of its own, and the fallback's response was selected.
C4_Witness ==
    \E p \in Procs :
        /\ Selected(p) /\ AllZero(p)
        /\ Len(logic_adapters) = 2
        /\ \E s \in DOMAIN results[p] : results[p][s].response # None
        /\ response[p] = DefaultResponse

\* ---- C5 (SpecSelect)
\* The strategies in configured order with the fallback last, and what the
\* i-th of them returned to p.
NumStrategies == Len(logic_adapters) + 1

ResultAt(p, i) ==
    IF i <= Len(logic_adapters) THEN results[p][logic_adapters[i]]
    ELSE NoKnowledgeAdapter

\* The earliest strategy among those with the highest confidence.
EarliestBest(p) ==
    CHOOSE i \in 1..NumStrategies :
        /\ \A j \in 1..NumStrategies :
              ResultAt(p, j).confidence <= ResultAt(p, i).confidence
        /\ \A j \in 1..(i - 1) :
              ResultAt(p, j).confidence < ResultAt(p, i).confidence

InitialTurns(c) ==
    IF c \in DOMAIN InitConversations(seeded)
    THEN InitConversations(seeded)[c] ELSE <<>>

\* C6 as stated: a get_response call in read-only mode has appended its input
\* turn and its output turn to the conversation when it returns.
C6_ReadOnlyStillAppends ==
    [][\A p \in Procs :
          (read_only /\ Returns(p))
          => \E n \in 1..Len(conversations'[conversation[p]]) - 1 :
                /\ conversations'[conversation[p]][n] = statement[p].text
                /\ conversations'[conversation[p]][n + 1] = returned'[p]
                /\ n + 1 > Len(conversations[conversation[p]])]_vars

\* C6 as amended: in read-only mode no call appends a turn; every conversation
\* holds the turns it held at the start.
C6_ReadOnlyAppendsNothing ==
    read_only =>
        \A c \in DOMAIN conversations : conversations[c] = InitialTurns(c)

\* A read-only get_response call has returned, on an engine whose sessions
\* hold earlier turns.
C6_Witness ==
    \E p \in Procs :
        /\ read_only /\ seeded
        /\ returned[p] # NoReturn
        /\ \A c \in SessionIds : conversations[c] = SeedTurns

\* ---- C7
\* C7: in read-only mode no step of a learn_response call changes the store,
\* the conversations, the default conversation or the links the statement
\* passed in carries.
C7_ReadOnlyLearnIsNoOp ==
    [][\A p \in Procs :
          (read_only /\ StepOf(p)
             /\ (op[p] = "learn_response" \/ op'[p] = "learn_response"))
          => /\ UNCHANGED <<occurrence, response_links, conversations,
                            default_conversation>>
             /\ op[p] = "learn_response"
                  => statement'[p].in_response_to = statement[p].in_response_to]_vars

\* ---- C8
\* C8: in a get_response call that is not read-only, the previous statement P
\* is the conversation's last response read before the call appends anything,
\* and when there is one the call's store update raises the count of the link
\* P -> input by one (creating it at 1) and changes no other link.
C8_LinksPriorToInput ==
    [][\A p \in Procs :
          /\ (op[p] = "get_response" /\ pc[p] = "process" /\ StepOf(p))
             => previous_statement'[p] = Last(conversations[conversation[p]])
          /\ (op[p] = "get_response" /\ pc[p] = "learn" /\ StepOf(p)
                /\ ~read_only /\ previous_statement[p] # None)
             => response_links' =
                  [response_links EXCEPT
                      ![<<previous_statement[p], statement[p].text>>] = @ + 1]]_vars

\* A get_response call has just stored its input with a link that did not
\* exist before: the link's count is 1.
C8_Witness ==
    \E p \in Procs, t \in AllTexts :
        /\ op[p] = "get_response" /\ pc[p] = "learn_add"
        /\ statement[p].in_response_to[t] = 1
        /\ response_links[<<t, statement[p].text>>] = 1

\* ---- C9
\* C9 as stated: when a get_response call that is not read-only returns, the
\* conversation's last response is the statement of the call's input.
C9_LastIsInput ==
    [][\A p \in Procs :
          (~read_only /\ Returns(p))
          => Last(conversations'[conversation[p]]) = statement[p].text]_vars

\* C9 as amended: when a get_response call that is not read-only returns, the
\* conversation's last response is the response the call returns.
C9_LastIsResponse ==
    [][\A p \in Procs :
          (~read_only /\ Returns(p))
          => Last(conversations'[conversation[p]]) = returned'[p]]_vars

\* Two calls in one conversation, "Hi" and then "How are you?", have returned;
\* the conversation ends with the response to "How are you?".
C9_Witness ==
    \E p \in Procs, c \in DOMAIN conversations :
        /\ ~read_only /\ ~seeded
        /\ \A q \in Procs : pc[q] = "idle"
        /\ Len(conversations[c]) = 4
        /\ conversations[c][1] = "Hi"
        /\ conversations[c][3] = "How are you?"
        /\ conversations[c][4] = returned[p]
        /\ returned[p] # "How are you?"

\* ---- C10
\* C10: record operations are neither lost nor counted twice, one after the
\* other or interleaved: every link count is the number of record operations
\* that stored the pair, and every occurrence count is the count at the start
\* plus the number of store writes of that statement.
C10_CountsMatchRecords ==
    /\ \A pr \in Pairs : response_links[pr] = recorded[pr]
    /\ \A t \in AllTexts : occurrence[t] = InitOccurrence(seeded)[t] + upserts[t]

\* Two get_response calls in different conversations have both just recorded
\* the same pair, and its link count is 2.
C10_Witness ==
    \E pr \in Pairs :
        /\ \A p \in Procs : op[p] = "get_response" /\ pc[p] = "learn_add"
                            /\ statement[p].text = pr[2]
                            /\ statement[p].in_response_to[pr[1]] = 1
        /\ \A p, q \in Procs : p # q => conversation[p] # conversation[q]
        /\ recorded[pr] = 2
        /\ response_links[pr] = 2
        /\ occurrence[pr[2]] = InitOccurrence(seeded)[pr[2]] + 2

\* ---- C11
\* C11: in a learn_response call that has a previous statement P and is not
\* read-only, the step that makes the new occurrence of the statement visible
\* in the store makes the link P -> statement visible too: the link count has
\* gone up no later than the occurrence count, so no state, whatever another
\* caller is doing in it, holds the new occurrence without the link.
C11_LinkWithOccurrence ==
    [][\A p \in Procs :
          (pc[p] = "learn" /\ StepOf(p) /\ previous_statement[p] # None
             /\ occurrence'[statement[p].text] > occurrence[statement[p].text])
          => response_links'[<<previous_statement[p], statement[p].text>>]
                > response_links[<<previous_statement[p], statement[p].text>>]]_vars

\* A call has just stored its statement with a link to a previous statement
\* while the other caller, in another conversation, is about to run its
\* selection; the store shows the occurrence and the link.
C11_Witness ==
    \E p \in Procs, q \in Procs, t \in AllTexts :
        /\ pc[p] = "learn_add" /\ pc[q] = "process"
        /\ conversation[p] # conversation[q]
        /\ statement[p].in_response_to[t] = 1
        /\ occurrence[statement[p].text] > InitOccurrence(seeded)[statement[p].text]
        /\ response_links[<<t, statement[p].text>>] >= 1

\* ---- C12 (SpecSession)
\* The turns reported for conversation c: none when there is no record of it.
ReportedTurns(c) ==
    IF c \in DOMAIN conversations THEN conversations[c] ELSE <<>>

AllIdle == \A p \in Procs : pc[p] = "idle"

CreatedConversations(convs) == DOMAIN convs \cap Range(CreatedIds)

\* p starts a call that names no conversation.
StartsWithoutId(p) ==
    /\ pc[p] = "idle" /\ StepOf(p)
    /\ \/ op'[p] = "get_response" /\ conversation_id'[p] = None
       \/ op'[p] = "learn_response" /\ conversation'[p] \notin SessionIds

\* C13: there is no default conversation after construction; the first call
\* that names no conversation creates one, empty, and every later such call
\* works on that same conversation and creates none: at most one default
\* conversation is ever created.
C13_OneDefaultConversation ==
    /\ [](/\ calls = 0
             => default_conversation = None /\ CreatedConversations(conversations) = {}
          /\ Cardinality(CreatedConversations(conversations)) <= 1
          /\ default_conversation # None
             => CreatedConversations(conversations) = {default_conversation})
    /\ [][\A p \in Procs :
            StartsWithoutId(p) =>
               /\ conversation'[p] = default_conversation'
               /\ IF default_conversation = None
                  THEN /\ default_conversation' \notin DOMAIN conversations
                       /\ CreatedConversations(conversations') = {default_conversation'}
                       /\ conversations'[default_conversation'] = <<>>
                  ELSE /\ default_conversation' = default_conversation
                       /\ DOMAIN conversations' = DOMAIN conversations]_vars

\* Two get_response calls that named no conversation have been made while
\* the sessions s1 and s2 existed: one default conversation holds the four
\* turns of both calls.
C13_Witness ==
    /\ seeded /\ ~read_only /\ AllIdle
    /\ default_conversation = CreatedIds[1]
    /\ CreatedConversations(conversations) = {CreatedIds[1]}
    /\ Len(conversations[CreatedIds[1]]) = 4
    /\ \A c \in SessionIds : conversations[c] = SeedTurns

\* ---- C14 (SpecSession)
IsPrefix(old, new) ==
    /\ Len(old) <= Len(new)
    /\ \A i \in 1..Len(old) : new[i] = old[i]

Rank ==
    [s \in {"idle", "generate_base_query", "process", "learn", "learn_add",
             "save", "add"} |->
        CASE s = "idle" -> 0
          [] s = "generate_base_query" -> 1
          [] s = "process" -> 2
          [] s = "learn" -> 3
          [] s = "learn_add" -> 4
          [] s = "save" -> 5
          [] s = "add" -> 6]

\* C15: a step of a get_response call in which a store operation fails ends
\* the call with the error and changes nothing; a call hands back a response
\* only at its last step with that step's store operation done; a call that
\* goes on has made its store operation with its effect (the scope is the
\* call's own conversation, the update and the save each count once, each
\* append adds one turn); and a call never goes back to a position it has
\* passed, so no store operation is made twice in one call.
C15_StoreFailurePropagates ==
    [][\A p \in Procs :
          (op[p] = "get_response" /\ StepOf(p)) =>
             /\ returned'[p] \in AllTexts \cup {StoreError}
                   => pc'[p] = "idle"
             /\ returned'[p] = StoreError
                   => UNCHANGED <<occurrence, response_links, conversations,
                                  base_query, upserts, recorded>>
             /\ returned'[p] \in AllTexts
                   => /\ returned'[p] = response[p]
                      /\ IF read_only THEN pc[p] = "learn"
                         ELSE /\ pc[p] = "add"
                              /\ conversations' = statements_add(conversations,
                                                     conversation[p], response[p])
             /\ pc'[p] # "idle"
                   => /\ Rank[pc'[p]] > Rank[pc[p]]
                      /\ returned'[p] = NoReturn
                      /\ pc[p] = "generate_base_query" => base_query' = conversation[p]
                      /\ pc[p] = "process" => response'[p] \in AllTexts
                      /\ pc[p] = "learn" =>
                            upserts'[statement[p].text] = upserts[statement[p].text] + 1
                      /\ pc[p] = "learn_add" =>
                            conversations' = statements_add(conversations,
                                                conversation[p], statement[p].text)
                      /\ pc[p] = "save" =>
                            upserts'[response[p]] = upserts[response[p]] + 1]_vars

\* A call failed at response.save(): its caller holds the error, the input
\* is stored and in the conversation, and the response is in neither.
C15_Witness ==
    \E p \in Procs, c \in DOMAIN conversations :
        /\ ~seeded /\ ~read_only /\ AllIdle /\ calls = 1
        /\ returned[p] = StoreError
        /\ Len(conversations[c]) = 1
        /\ upserts[conversations[c][1]] = 1
        /\ \A t \in AllTexts \ {conversations[c][1]} : upserts[t] = 0

\* ---- C16
\* C16: when not read-only, learn_response makes one store update that raises
\* the statement's occurrence count by one and then appends the statement to
\* the conversation, with or without a previous statement; without one, no
\* response link is created or incremented.
C16_PersistsWithoutPrevious ==
    [][\A p \in Procs :
          (~read_only /\ StepOf(p)) =>
             /\ pc[p] = "learn" =>
                   /\ occurrence' = [occurrence EXCEPT ![statement[p].text] = @ + 1]
                   /\ upserts' = [upserts EXCEPT ![statement[p].text] = @ + 1]
                   /\ pc'[p] = "learn_add"
                   /\ previous_statement[p] = None => response_links' = response_links
             /\ pc[p] = "learn_add" =>
                   conversations' = statements_add(conversations, conversation[p],
                                                   statement[p].text)]_vars

\* learn_response was called with no previous statement on an engine with an
\* empty store: the statement is stored once, it is the only turn of the
\* conversation, and there is no link.
C16_Witness ==
    \E p \in Procs, c \in DOMAIN conversations :
        /\ ~seeded /\ ~read_only /\ AllIdle /\ calls = 1
        /\ statement[p] = Statement("Hi")
        /\ returned[p] = NoReturn
        /\ occurrence["Hi"] = 1
        /\ conversations[c] = <<"Hi">>
        /\ \A pr \in Pairs : response_links[pr] = 0

\* ---- C17
\* C17: when a get_response call runs its selection, the scope held by the
\* storage adapter is the one generate_response set for the call's own
\* conversation, whatever calls for other conversations have done since, and
\* the selection changes nothing in the store.
C17_ScopeIsOwnConversation ==
    [][\A p \in Procs :
          (op[p] = "get_response" /\ pc[p] = "process" /\ StepOf(p))
          => /\ base_query = conversation[p]
             /\ UNCHANGED <<occurrence, response_links, conversations>>]_vars

\* ---- C18 (SpecFail)
\* p's step records the response of its call: it is past learn_response and
\* writes to the statements or to the conversations.
RecordsResponse(p) ==
    /\ op[p] = "get_response" /\ StepOf(p)
    /\ pc[p] \notin {"idle", "learn", "learn_add"}
    /\ occurrence' # occurrence \/ conversations' # conversations

\* C18: on an engine that is not read-only, a call saves its response or puts
\* it in the conversation only when its input statement is already stored and
\* already in that conversation, and nothing stored or appended is ever taken
\* back (no count goes down, no turn is removed), calls that end in a store
\* error included: no state holds a call's response without its input.
C18_ResponseOnlyAfterInput ==
    [][~read_only =>
          /\ \A p \in Procs :
                RecordsResponse(p) =>
                   /\ upserts[statement[p].text] >= 1
                   /\ occurrence[statement[p].text] >= 1
                   /\ statement[p].text \in Range(conversations[conversation[p]])
          /\ \A t \in AllTexts : occurrence'[t] >= occurrence[t]
          /\ \A c \in DOMAIN conversations :
                /\ c \in DOMAIN conversations'
                /\ IsPrefix(conversations[c], conversations'[c])]_vars

\* A call failed at its last step, the append of the response: the input is
\* stored and is the conversation's only turn, the response is stored too.
C18_Witness ==
    \E p \in Procs, c \in DOMAIN conversations :
        /\ ~seeded /\ ~read_only /\ AllIdle /\ calls = 1
        /\ returned[p] = StoreError
        /\ conversations[c] = <<"Hi">>
        /\ upserts["Hi"] = 1
        /\ upserts[DefaultResponse] = 1
        /\ occurrence[DefaultResponse] = 1

====
